---- MODULE Spec2Model ----
(***************************************************************************)
(* Model of WorkanaScraper.scrape (src/scrapers/workana_scraper.py): the   *)
(* paginated walk over the job listing with the stop-on-known-job rule.    *)
(* One run of scrape() is one behaviour; the site (page contents, fetch    *)
(* outcomes, pagination metadata) is the environment and is chosen anew at *)
(* every fetch, so a listing may show up on two pages of the same run.     *)
(***************************************************************************)
EXTENDS Integers, Sequences, FiniteSets, TLC

(* ------------------------------ bounds -------------------------------- *)
\* largest page number a pagination link may show
MaxTotal == 2
\* largest max_pages argument tried
MaxPagesArg == 3
\* most job elements on one page
MaxItems == 2

(* --------------------------- Python values ---------------------------- *)
\* Python's None for a string-valued dict entry
None == "<None>"

\* truthiness of an optional string: None and '' are falsy
Truthy(v) == v # None /\ v # ""

Min(a, b) == IF a <= b THEN a ELSE b
Max(a, b) == IF a >= b THEN a ELSE b

(* ------------------------ what a page can hold ------------------------ *)
\* parse_job_element_from_html raised for this fragment
ParseError == [id |-> "<raise>", client_name |-> "<raise>"]

\* job_data dicts the parser can return (id / client_name may be missing)
JobData == { [id |-> "J1",  client_name |-> "Acme"],
             [id |-> "J2",  client_name |-> None],
             [id |-> "",    client_name |-> "Acme"],
             [id |-> None,  client_name |-> "Acme"] }

\* outcome of parsing one job element of the page
ParseOutcomes == JobData \cup {ParseError}

RECURSIVE SeqsUpTo(_, _)
SeqsUpTo(S, n) ==
    IF n = 0 THEN { <<>> }
    ELSE LET shorter == SeqsUpTo(S, n - 1)
         IN  shorter \cup { Append(s, x) : s \in { t \in shorter : Len(t) = n - 1 }, x \in S }

\* get_job_elements(): the job elements of the current page, already parsed
PageContents == SeqsUpTo(ParseOutcomes, MaxItems)

\* existing_job_ids handed to scrape(): composite keys "id|client_name"
KnownSets == { {}, {"J1|Acme"}, {"J1|Acme", "|Acme"}, {"J2|", "|Acme"} }

(* ----------------------------- exceptions ----------------------------- *)
\* what page.goto / wait_for_selector do for one URL
FetchOutcomes == {"ok", "PlaywrightTimeoutError", "Error"}

\* Python's `except cls`: every exception is an instance of Exception
IsInstance_exact(exc, cls) == exc = cls
IsInstance(exc, cls) == cls = "Exception" \/ exc = cls

\* load_page: "True", "False", or the exception that escapes it
load_page_error_ok(outcome) ==
    IF outcome = "ok" THEN "True"
    ELSE IF IsInstance(outcome, "PlaywrightTimeoutError") THEN "False"
    ELSE "True"
load_page_always_true(outcome) == "True"
load_page(outcome) ==
    IF outcome = "ok" THEN "True"
    ELSE IF IsInstance(outcome, "PlaywrightTimeoutError") THEN "False"
    ELSE IF IsInstance(outcome, "Exception") THEN "False"
    ELSE outcome

(* --------------------------- get_total_pages -------------------------- *)
\* what the pagination element of page 1 looks like
PaginationMeta ==
    { [kind |-> k, numbers |-> {}] : k \in {"no_pagination", "no_links", "error"} }
    \cup { [kind |-> "links", numbers |-> S] : S \in SUBSET (0 .. MaxTotal) }

\* the case of get_total_pages a pagination element falls into
MetaKind(meta) ==
    IF meta.kind = "links" /\ meta.numbers = {} THEN "no_digits" ELSE meta.kind

SetMax(S) == CHOOSE m \in S : \A n \in S : n <= m

get_total_pages_zero(meta) ==
    IF meta.kind = "error" THEN 0
    ELSE IF meta.kind = "no_pagination" THEN 0
    ELSE IF meta.kind = "no_links" THEN 0
    ELSE IF meta.numbers # {} THEN SetMax(meta.numbers) ELSE 0

get_total_pages(meta) ==
    IF meta.kind = "error" THEN 1
    ELSE IF meta.kind = "no_pagination" THEN 1
    ELSE IF meta.kind = "no_links" THEN 1
    ELSE IF meta.numbers # {} THEN SetMax(meta.numbers) ELSE 1

\* `if max_pages: total_pages = min(total_pages, max_pages)`
clamp_none(total, maxp) == total
clamp_zero_pages(total, maxp) == Min(total, maxp)
clamp(total, maxp) == IF maxp # 0 THEN Min(total, maxp) ELSE total

(* ------------------------------ scrape_page --------------------------- *)
\* f"{job_data.get('id')}|{job_data.get('client_name') or ''}"
job_key_id_only(job_data) == job_data.id
job_key_no_default(job_data) == job_data.id \o "|" \o job_data.client_name
job_key(job_data) ==
    job_data.id \o "|" \o (IF Truthy(job_data.client_name) THEN job_data.client_name ELSE "")

\* `if not job_data.get('id'): continue`
has_id_always(job_data) == TRUE
has_id(job_data) == Truthy(job_data.id)

\* `if STOP_ON_KNOWN_JOB and job_key in existing_job_ids`
is_known_ignore_cfg(job_data, existing, stop_cfg) == job_key(job_data) \in existing
is_known(job_data, existing, stop_cfg) == stop_cfg /\ job_key(job_data) \in existing

RECURSIVE parse_loop_append_first(_, _, _, _, _)
parse_loop_append_first(job_elements, i, existing, stop_cfg, jobs) ==
    IF i > Len(job_elements) THEN [jobs |-> jobs, should_stop |-> FALSE]
    ELSE LET job_data == job_elements[i] IN
         IF job_data = ParseError
           THEN parse_loop_append_first(job_elements, i + 1, existing, stop_cfg, jobs)
         ELSE IF ~has_id(job_data)
           THEN parse_loop_append_first(job_elements, i + 1, existing, stop_cfg, jobs)
         ELSE IF is_known(job_data, existing, stop_cfg)
           THEN [jobs |-> Append(jobs, job_data), should_stop |-> TRUE]
         ELSE parse_loop_append_first(job_elements, i + 1, existing, stop_cfg, Append(jobs, job_data))

RECURSIVE parse_loop_no_flag(_, _, _, _, _)
parse_loop_no_flag(job_elements, i, existing, stop_cfg, jobs) ==
    IF i > Len(job_elements) THEN [jobs |-> jobs, should_stop |-> FALSE]
    ELSE LET job_data == job_elements[i] IN
         IF job_data = ParseError
           THEN parse_loop_no_flag(job_elements, i + 1, existing, stop_cfg, jobs)
         ELSE IF ~has_id(job_data)
           THEN parse_loop_no_flag(job_elements, i + 1, existing, stop_cfg, jobs)
         ELSE IF is_known(job_data, existing, stop_cfg)
           THEN [jobs |-> jobs, should_stop |-> FALSE]
         ELSE parse_loop_no_flag(job_elements, i + 1, existing, stop_cfg, Append(jobs, job_data))

RECURSIVE parse_loop_abort_on_error(_, _, _, _, _)
parse_loop_abort_on_error(job_elements, i, existing, stop_cfg, jobs) ==
    IF i > Len(job_elements) THEN [jobs |-> jobs, should_stop |-> FALSE]
    ELSE LET job_data == job_elements[i] IN
         IF job_data = ParseError
           THEN [jobs |-> jobs, should_stop |-> FALSE]
         ELSE IF ~has_id(job_data)
           THEN parse_loop_abort_on_error(job_elements, i + 1, existing, stop_cfg, jobs)
         ELSE IF is_known(job_data, existing, stop_cfg)
           THEN [jobs |-> jobs, should_stop |-> TRUE]
         ELSE parse_loop_abort_on_error(job_elements, i + 1, existing, stop_cfg, Append(jobs, job_data))

\* the for loop of scrape_page, from element i on
RECURSIVE parse_loop(_, _, _, _, _)
parse_loop(job_elements, i, existing, stop_cfg, jobs) ==
    IF i > Len(job_elements) THEN [jobs |-> jobs, should_stop |-> FALSE]
    ELSE LET job_data == job_elements[i] IN
         IF job_data = ParseError
           THEN parse_loop(job_elements, i + 1, existing, stop_cfg, jobs)
         ELSE IF ~has_id(job_data)
           THEN parse_loop(job_elements, i + 1, existing, stop_cfg, jobs)
         ELSE IF is_known(job_data, existing, stop_cfg)
           THEN [jobs |-> jobs, should_stop |-> TRUE]
         ELSE parse_loop(job_elements, i + 1, existing, stop_cfg, Append(jobs, job_data))

scrape_page_empty_stops(job_elements, existing, stop_cfg) ==
    IF job_elements = <<>> THEN [jobs |-> <<>>, should_stop |-> TRUE]
    ELSE parse_loop(job_elements, 1, existing, stop_cfg, <<>>)

\* scrape_page: (jobs, should_stop) for the job elements of the current page
scrape_page(job_elements, existing, stop_cfg) ==
    IF job_elements = <<>> THEN [jobs |-> <<>>, should_stop |-> FALSE]
    ELSE parse_loop(job_elements, 1, existing, stop_cfg, <<>>)

(* ----------------------------- SlackNotifier -------------------------- *)
\* longest batch handed to send_new_jobs
MaxBatch == 11

\* new_jobs[:10]
JobsPerMessage == 10

\* Optional[...] values: None, or a value
NoneOf(empty) == [some |-> FALSE, val |-> empty]
Some(v) == [some |-> TRUE, val |-> v]

\* a URL is the sequence of its pieces, '' the empty sequence
SlackPrefix == << "https://", "hooks.slack.com" >>

WebhookUrls ==
    { NoneOf(<<>>),
      Some(<<>>),
      Some(SlackPrefix \o << "/services/T0/B0/x" >>),
      Some(<< "http://", "hooks.slack.com", "/services/T0/B0/x" >>),
      Some(<< "https://", "example.com", "/hooks.slack.com" >>) }

\* str.startswith
startswith(s, prefix) == Len(s) >= Len(prefix) /\ SubSeq(s, 1, Len(prefix)) = prefix

\* `if self.webhook_url:` / `if blocks:`
TruthySeq(o) == o.some /\ o.val # <<>>
\* `if total_scraped:`
TruthyInt(o) == o.some /\ o.val # 0

\* what requests.post does: a response with a status code, or an exception
PostOutcomes ==
    { [status |-> c, exc |-> None] : c \in {200, 201, 500} }
    \cup { [status |-> 0, exc |-> e] :
             e \in {"Timeout", "ConnectionError", "RequestException", "ValueError"} }

\* send_message: the value returned and the requests.post calls made
send_message_no_prefix_check(webhook, text, blocks, response) ==
    IF ~TruthySeq(webhook) THEN [ret |-> "False", posts |-> <<>>]
    ELSE LET payload == [text |-> text,
                         blocks |-> IF TruthySeq(blocks) THEN Some(blocks.val) ELSE NoneOf(<<>>)]
             request == [url |-> webhook.val, json |-> payload]
         IN  [ret |-> IF response.exc = None /\ response.status = 200 THEN "True" ELSE "False",
              posts |-> << request >>]

send_message(webhook, text, blocks, response) ==
    IF ~TruthySeq(webhook) THEN [ret |-> "False", posts |-> <<>>]
    ELSE IF ~startswith(webhook.val, SlackPrefix) THEN [ret |-> "False", posts |-> <<>>]
    ELSE LET payload == [text |-> text,
                         blocks |-> IF TruthySeq(blocks) THEN Some(blocks.val) ELSE NoneOf(<<>>)]
             request == [url |-> webhook.val, json |-> payload]
         IN  IF response.exc = None
               THEN [ret |-> IF response.status = 200 THEN "True" ELSE "False",
                     posts |-> << request >>]
             ELSE IF IsInstance(response.exc, "Timeout")
               THEN [ret |-> "False", posts |-> << request >>]
             ELSE IF IsInstance(response.exc, "ConnectionError")
               THEN [ret |-> "False", posts |-> << request >>]
             ELSE IF IsInstance(response.exc, "RequestException")
               THEN [ret |-> "False", posts |-> << request >>]
             ELSE IF IsInstance(response.exc, "Exception")
               THEN [ret |-> "False", posts |-> << request >>]
             ELSE [ret |-> "raise", posts |-> << request >>]

\* the jobs of a batch: dicts with a title and no url, country or budget
NotifyJobs == { [title |-> "A"], [title |-> "B"] }
Batches == SeqsUpTo(NotifyJobs, MaxBatch)

\* the bold divider section (drawn with box characters in the source)
Divider == [type |-> "section", text |-> "*-----*"]

\* format_job_block for such a job, no translator: the index is not used
format_job_block(job, index) ==
    [type |-> "section", text |-> "*" \o job.title \o "*\nPayment: Not Verified"]

\* new_jobs[:10]
jobs_to_send_all(new_jobs) == new_jobs
jobs_to_send(new_jobs) == SubSeq(new_jobs, 1, Min(Len(new_jobs), JobsPerMessage))

\* the for loop over enumerate(jobs_to_send, 1), from index i on
RECURSIVE job_blocks(_, _, _)
job_blocks(to_send, i, blocks) ==
    IF i > Len(to_send) THEN blocks
    ELSE LET with_job == Append(blocks, format_job_block(to_send[i], i))
         IN  job_blocks(to_send, i + 1,
                        IF i < Len(to_send) THEN Append(with_job, Divider) ELSE with_job)

\* the note added when the batch is longer than one message shows
more_note(new_jobs) ==
    IF Len(new_jobs) > JobsPerMessage
      THEN << [type |-> "section",
               text |-> "*... and " \o ToString(Len(new_jobs) - JobsPerMessage)
                        \o " more new jobs!* Check the database for full list."] >>
      ELSE <<>>

\* send_new_jobs: the value returned and the requests.post calls made
send_new_jobs(webhook, new_jobs, total_scraped, response) ==
    IF new_jobs = <<>> THEN [ret |-> "True", posts |-> <<>>]
    ELSE IF ~TruthySeq(webhook) THEN [ret |-> "False", posts |-> <<>>]
    ELSE LET n == ToString(Len(new_jobs))
             s == IF Len(new_jobs) # 1 THEN "s" ELSE ""
             header_text ==
                 "*" \o n \o " New Job" \o s \o " Found on Workana!*"
                 \o (IF TruthyInt(total_scraped)
                       THEN "\n(Scraped " \o ToString(total_scraped.val) \o " jobs total)"
                       ELSE "")
             head == << [type |-> "header", text |-> n \o " New Job" \o s \o " Found!"],
                        [type |-> "section", text |-> header_text],
                        Divider >>
             footer == [type |-> "context",
                        text |-> "Scraped from Workana.com - Total new jobs: " \o n]
             blocks == Append(job_blocks(jobs_to_send(new_jobs), 1, head) \o more_note(new_jobs),
                              footer)
             fallback_text == "Found " \o n \o " new job(s) on Workana"
         IN  send_message(webhook, fallback_text, Some(blocks), response)

(* ------------------- vocabulary of the properties --------------------- *)
\* a parsed item the walker may use: parsing succeeded and the id is present
Usable(item) == item # ParseError /\ item.id # None /\ item.id # ""

\* composite identity key id|client_name of a usable record
CompositeKey(rec) ==
    rec.id \o "|" \o (IF rec.client_name = None THEN "" ELSE rec.client_name)

AllKeys == { CompositeKey(r) : r \in { x \in JobData : Usable(x) } }

\* number of usable entries of a sequence of parse outcomes carrying key k
RECURSIVE CountKey(_, _)
CountKey(seq, k) ==
    IF seq = <<>> THEN 0
    ELSE (IF Usable(Head(seq)) /\ CompositeKey(Head(seq)) = k THEN 1 ELSE 0)
         + CountKey(Tail(seq), k)

(* -------------------------------- state ------------------------------- *)
VARIABLES
    pc,                 \* where scrape() is: start, get_total, loop, delay, load, done, raised
    page,               \* local `page`
    total_pages,        \* local `total_pages` (Unset before line 239)
    all_jobs,           \* local `all_jobs`
    should_stop,        \* flag of the latest scrape_page call
    result,             \* the list scrape() returned
    existing_job_ids,   \* argument existing_job_ids
    max_pages,          \* argument max_pages (after the MAX_PAGES default)
    STOP_ON_KNOWN_JOB,  \* config.settings.STOP_ON_KNOWN_JOB
    fetched,            \* history: every load_page call, <<page, outcome>>
    scraped,            \* history: number of scrape_page calls so far
    job_elements,       \* local `job_elements` of the scrape_page call just made
    knownPages,         \* history: pages that held a usable record with a known key
    seenKeys,           \* history: how often each key occurred among the scraped items
    origin,             \* history: page each entry of all_jobs came from
    reported,           \* history: what get_total_pages returned
    pagination,         \* history: what get_total_pages found on the page
    delays,             \* history: page counter at every inter-page sleep
    webhook_url,        \* SlackNotifier.webhook_url
    call,               \* the SlackNotifier method called and its arguments
    posts,              \* the requests.post calls that method call made
    ret                 \* what that method call returned

vars == << pc, page, total_pages, all_jobs, should_stop, result, existing_job_ids,
           max_pages, STOP_ON_KNOWN_JOB, fetched, scraped, job_elements, knownPages,
           seenKeys, origin, reported, pagination, delays, webhook_url, call, posts, ret >>

notifier == << webhook_url, call, posts, ret >>

Unset == -1

\* no SlackNotifier method has been called
NoCall ==
    [op |-> "none", text |-> "", blocks |-> NoneOf(<<>>), new_jobs |-> <<>>,
     total_scraped |-> NoneOf(0), response |-> [status |-> 0, exc |-> None]]

\* a run of scrape() alone: the notifier stays unused
NotifierUnused ==
    /\ webhook_url = NoneOf(<<>>)
    /\ call = NoCall
    /\ posts = <<>>
    /\ ret = None

Init ==
    /\ NotifierUnused
    /\ pc = "start"
    /\ page = 1
    /\ total_pages = Unset
    /\ all_jobs = <<>>
    /\ should_stop = FALSE
    /\ result = <<>>
    /\ existing_job_ids \in KnownSets
    /\ max_pages \in 0 .. MaxPagesArg
    /\ STOP_ON_KNOWN_JOB \in BOOLEAN
    /\ fetched = <<>>
    /\ scraped = 0
    /\ job_elements = <<>>
    /\ knownPages = {}
    /\ seenKeys = [k \in AllKeys |-> 0]
    /\ origin = <<>>
    /\ reported = Unset
    /\ pagination = "unread"
    /\ delays = <<>>

config == << existing_job_ids, max_pages, STOP_ON_KNOWN_JOB >>

\* what the scrape_page calls so far leave behind for the properties
pageHistory == << scraped, job_elements, knownPages, seenKeys >>

KnownItem(item) == Usable(item) /\ CompositeKey(item) \in existing_job_ids

\* `except Exception as e:` of scrape, then `return all_jobs`
scrape_catches(exc) == IsInstance(exc, "Exception")

\* `return all_jobs`: what the caller of scrape() receives
ReturnValue == [jobs |-> result]

\* existing_job_ids after a scrape_page call: the set is only read (`in`)
existing_add_scraped(existing, jobs) ==
    existing \cup { job_key(jobs[i]) : i \in 1 .. Len(jobs) }
existing_after_scrape_page(existing, jobs) == existing

\* `page += 1`
next_page_same(p) == p
next_page_reset(p) == 1
next_page(p) == p + 1

\* all_jobs.extend(jobs)
extend_twice(list, jobs) == list \o jobs \o jobs
extend_prepend(list, jobs) == jobs \o list
extend(list, jobs) == list \o jobs

\* leave scrape() after load_page answered r for page p
AfterLoad(r, okpc) ==
    IF r = "True" THEN pc' = okpc /\ result' = result
    ELSE IF r = "False" \/ scrape_catches(r) THEN pc' = "done" /\ result' = all_jobs
    ELSE pc' = "raised" /\ result' = result

\* lines 231-236: load the first page
LoadFirstPage ==
    /\ pc = "start"
    /\ \E outcome \in FetchOutcomes :
          /\ fetched' = Append(fetched, [page |-> page, outcome |-> outcome])
          /\ AfterLoad(load_page(outcome), "get_total")
    /\ UNCHANGED << notifier, page, total_pages, all_jobs, should_stop, config, pageHistory, origin,
                    reported, pagination, delays >>

\* lines 238-243: read the page count once and clamp it
GetTotalPages ==
    /\ pc = "get_total"
    /\ \E meta \in PaginationMeta :
          /\ reported' = get_total_pages(meta)
          /\ pagination' = MetaKind(meta)
          /\ total_pages' = clamp(get_total_pages(meta), max_pages)
    /\ pc' = "loop"
    /\ UNCHANGED << notifier, page, all_jobs, should_stop, result, config, fetched, pageHistory,
                    origin, delays >>

\* lines 246-264: one iteration of the while loop up to the delay
ScrapePage ==
    /\ pc = "loop"
    /\ page <= total_pages
    /\ \E elements \in PageContents :
          LET r == scrape_page(elements, existing_job_ids, STOP_ON_KNOWN_JOB) IN
          /\ scraped' = scraped + 1
          /\ job_elements' = elements
          /\ knownPages' = IF \E i \in 1 .. Len(elements) : KnownItem(elements[i])
                             THEN knownPages \cup {page} ELSE knownPages
          /\ seenKeys' = [k \in AllKeys |-> seenKeys[k] + CountKey(elements, k)]
          /\ all_jobs' = extend(all_jobs, r.jobs)
          /\ origin' = origin \o [j \in 1 .. (Len(all_jobs') - Len(all_jobs)) |-> page]
          /\ should_stop' = r.should_stop
          /\ existing_job_ids' = existing_after_scrape_page(existing_job_ids, r.jobs)
          /\ IF r.should_stop
               THEN /\ page' = page
                    /\ pc' = "done"
                    /\ result' = all_jobs'
               ELSE /\ page' = next_page(page)
                    /\ IF page' > total_pages
                         THEN pc' = "done" /\ result' = all_jobs'
                         ELSE pc' = "delay" /\ result' = result
    /\ UNCHANGED << notifier, total_pages, max_pages, STOP_ON_KNOWN_JOB, fetched, reported,
                    pagination, delays >>

\* line 246 false on entry: the loop body never runs
WhileExit ==
    /\ pc = "loop"
    /\ ~(page <= total_pages)
    /\ pc' = "done"
    /\ result' = all_jobs
    /\ UNCHANGED << notifier, page, total_pages, all_jobs, should_stop, config, fetched, pageHistory,
                    origin, reported, pagination, delays >>

DelayOmitted ==
    /\ pc = "delay"
    /\ job_elements' = <<>>
    /\ pc' = "load"
    /\ UNCHANGED << notifier, page, total_pages, all_jobs, should_stop, result, config, fetched,
                    scraped, knownPages, seenKeys, origin, reported, pagination, delays >>

\* lines 266-270: sleep between pages (the elements of the page left behind
\* are no longer looked at)
Delay ==
    /\ pc = "delay"
    /\ delays' = Append(delays, page)
    /\ job_elements' = <<>>
    /\ pc' = "load"
    /\ UNCHANGED << notifier, page, total_pages, all_jobs, should_stop, result, config, fetched,
                    scraped, knownPages, seenKeys, origin, reported, pagination >>

LoadNextPageReread ==
    /\ pc = "load"
    /\ \E outcome \in FetchOutcomes :
          /\ fetched' = Append(fetched, [page |-> page, outcome |-> outcome])
          /\ AfterLoad(load_page(outcome), "get_total")
    /\ UNCHANGED << notifier, page, total_pages, all_jobs, should_stop, config, pageHistory, origin,
                    reported, pagination, delays >>

\* lines 272-276: load the next page
LoadNextPage ==
    /\ pc = "load"
    /\ \E outcome \in FetchOutcomes :
          /\ fetched' = Append(fetched, [page |-> page, outcome |-> outcome])
          /\ AfterLoad(load_page(outcome), "loop")
    /\ UNCHANGED << notifier, page, total_pages, all_jobs, should_stop, config, pageHistory, origin,
                    reported, pagination, delays >>

Next ==
    \/ LoadFirstPage
    \/ GetTotalPages
    \/ ScrapePage
    \/ WhileExit
    \/ Delay
    \/ LoadNextPage

Spec == Init /\ [][Next]_vars

\* scrape() is one sequential call: it keeps running until it returns
FairSpec == Spec /\ WF_vars(Next)

TypeOK ==
    /\ pc \in {"start", "get_total", "loop", "delay", "load", "done", "raised"}
    /\ page \in 1 .. (MaxTotal + 1)
    /\ total_pages \in Unset .. MaxTotal
    /\ should_stop \in BOOLEAN
    /\ scraped \in 0 .. MaxTotal
    /\ job_elements \in PageContents
    /\ Len(origin) = Len(all_jobs)

(* ------------------------ SlackNotifier calls ------------------------- *)
scraper == << pc, page, total_pages, all_jobs, should_stop, result, existing_job_ids,
              max_pages, STOP_ON_KNOWN_JOB, fetched, scraped, job_elements, knownPages,
              seenKeys, origin, reported, pagination, delays >>

\* arguments of a direct send_message call
Texts == {"", "hello"}
BlockArgs == { NoneOf(<<>>), Some(<<>>), Some(<< Divider >>) }
TotalScrapedArgs == { NoneOf(0), Some(0), Some(7) }

\* SlackNotifier(webhook_url), no scrape running
NotifyInit ==
    /\ pc = "done"
    /\ page = 1
    /\ total_pages = Unset
    /\ all_jobs = <<>>
    /\ should_stop = FALSE
    /\ result = <<>>
    /\ existing_job_ids = {}
    /\ max_pages = 0
    /\ STOP_ON_KNOWN_JOB = FALSE
    /\ fetched = <<>>
    /\ scraped = 0
    /\ job_elements = <<>>
    /\ knownPages = {}
    /\ seenKeys = [k \in AllKeys |-> 0]
    /\ origin = <<>>
    /\ reported = Unset
    /\ pagination = "unread"
    /\ delays = <<>>
    /\ webhook_url \in WebhookUrls
    /\ call = NoCall
    /\ posts = <<>>
    /\ ret = None

\* one call of send_message(text, blocks)
SendMessage ==
    /\ call.op = "none"
    /\ \E text \in Texts, blocks \in BlockArgs, response \in PostOutcomes :
          LET r == send_message(webhook_url, text, blocks, response) IN
          /\ call' = [NoCall EXCEPT !.op = "send_message", !.text = text,
                                    !.blocks = blocks, !.response = response]
          /\ posts' = r.posts
          /\ ret' = r.ret
    /\ UNCHANGED << webhook_url, scraper >>

\* one call of send_new_jobs(new_jobs, total_scraped)
SendNewJobs ==
    /\ call.op = "none"
    /\ \E new_jobs \in Batches, total_scraped \in TotalScrapedArgs, response \in PostOutcomes :
          LET r == send_new_jobs(webhook_url, new_jobs, total_scraped, response) IN
          /\ call' = [NoCall EXCEPT !.op = "send_new_jobs", !.new_jobs = new_jobs,
                                    !.total_scraped = total_scraped, !.response = response]
          /\ posts' = r.posts
          /\ ret' = r.ret
    /\ UNCHANGED << webhook_url, scraper >>

NotifyNext ==
    \/ SendMessage
    \/ SendNewJobs

NotifySpec == NotifyInit /\ [][NotifyNext]_vars

(* ------------------------ more property vocabulary -------------------- *)
\* index of the first known usable record of a page (0 if none)
FirstKnown(items) ==
    IF \E i \in 1 .. Len(items) : KnownItem(items[i])
    THEN CHOOSE i \in 1 .. Len(items) :
            /\ KnownItem(items[i])
            /\ \A j \in 1 .. (i - 1) : ~KnownItem(items[j])
    ELSE 0

\* the records page p contributed to all_jobs, in order
RECURSIVE FromPage(_, _)
FromPage(p, n) ==
    IF n = 0 THEN <<>>
    ELSE IF origin[n] = p THEN Append(FromPage(p, n - 1), all_jobs[n])
    ELSE FromPage(p, n - 1)
Contribution(p) == FromPage(p, Len(all_jobs))

SomeFetchFailed == \E i \in 1 .. Len(fetched) : fetched[i].outcome # "ok"
LastFetch == fetched[Len(fetched)]

(* ------------------------------ claims -------------------------------- *)
\* C1: with stop-on-known enabled, once a scraped page p holds a usable record
\* whose composite key is known, the run has stopped with the stop flag set,
\* no record of the result comes from a page after p, and no page after p is
\* scraped or fetched.
C1_EarlyStop ==
    \A p \in knownPages :
        STOP_ON_KNOWN_JOB =>
            /\ should_stop
            /\ pc = "done"
            /\ scraped = p
            /\ \A j \in 1 .. Len(result) : origin[j] <= p
            /\ \A i \in 1 .. Len(fetched) : fetched[i].page <= p

C1_Witness ==
    /\ STOP_ON_KNOWN_JOB
    /\ 2 \in knownPages
    /\ Len(result) > 0
    /\ should_stop

\* C2: with stop-on-known enabled, a page holding a known record contributes
\* exactly the usable records that precede its first known record: neither the
\* known record nor anything after it is appended.  (Every page is the latest
\* scraped page right after its scrape_page call.)
C2_MidPageHalt ==
    LET k == FirstKnown(job_elements) IN
    (STOP_ON_KNOWN_JOB /\ scraped > 0 /\ k > 0) =>
        Contribution(scraped) = SelectSeq(SubSeq(job_elements, 1, k - 1), Usable)

C2_Witness ==
    /\ STOP_ON_KNOWN_JOB
    /\ scraped = 1
    /\ Len(job_elements) >= 2
    /\ FirstKnown(job_elements) = 2
    /\ Usable(job_elements[1])
    /\ result = << job_elements[1] >>

\* C3: with stop-on-known disabled, every page from 1 to
\* min(reported total, max_pages) is eventually scraped unless a fetch fails.
C3_AllPagesScraped ==
    \A p \in 1 .. MaxTotal :
        (~STOP_ON_KNOWN_JOB /\ reported # Unset /\ p <= Min(reported, max_pages))
            ~> (scraped >= p \/ SomeFetchFailed)

C3_Witness ==
    /\ ~STOP_ON_KNOWN_JOB
    /\ pc = "done"
    /\ ~SomeFetchFailed
    /\ scraped = 2
    /\ knownPages = {1, 2}

C7_FirstPageFailure ==
    (fetched # <<>> /\ fetched[1].outcome # "ok") =>
        /\ pc = "done"
        /\ result = <<>>
        /\ ~should_stop
        /\ scraped = 0
        /\ Len(fetched) = 1

C7_Witness ==
    /\ Len(fetched) = 1
    /\ fetched[1].outcome = "PlaywrightTimeoutError"
    /\ pc = "done"

\* C8: when the fetch of page p > 1 fails (timeout or any other error), p was
\* fetched once, it is the last fetch, pages 1..p-1 are the pages scraped, and
\* the run returns the list accumulated before the failed fetch, unchanged.
C8_LaterPageFailure ==
    /\ [] ((fetched # <<>> /\ LastFetch.outcome # "ok" /\ LastFetch.page > 1) =>
              /\ pc = "done"
              /\ \A i \in 1 .. Len(fetched) : fetched[i].page = i
              /\ scraped = LastFetch.page - 1
              /\ result = all_jobs
              /\ \A j \in 1 .. Len(result) : origin[j] < LastFetch.page)
    /\ [][ (pc = "load" /\ pc' = "done") =>
              (all_jobs' = all_jobs /\ result' = all_jobs /\ scraped' = scraped) ]_vars
    /\ [][ (fetched # <<>> /\ LastFetch.outcome # "ok") => fetched' = fetched ]_vars

C8_Witness ==
    /\ Len(fetched) = 2
    /\ fetched[2].outcome = "Error"
    /\ pc = "done"
    /\ Len(result) > 0

\* C9 (as stated): the number of pages fetched never exceeds
\* min(total pages reported on page 1, max_pages).
C9_FetchedAtMostMin ==
    reported # Unset => Len(fetched) <= Min(reported, max_pages)

\* the loop bound: the reported total, clamped only by a non-zero max_pages
C9_Limit == IF max_pages = 0 THEN reported ELSE Min(reported, max_pages)

\* C9 (amended): page 1 is always fetched and the number of pages fetched never
\* exceeds max(1, limit); a run without early stop or fetch failure fetches
\* exactly that many pages.
C9_FetchedAtMostLimit ==
    /\ reported = Unset => Len(fetched) <= 1
    /\ reported # Unset =>
          /\ Len(fetched) <= Max(1, C9_Limit)
          /\ (pc = "done" /\ ~should_stop /\ ~SomeFetchFailed)
                => Len(fetched) = Max(1, C9_Limit)

C9_Witness ==
    /\ pc = "done"
    /\ reported = 2
    /\ max_pages = 3
    /\ Len(fetched) = 2
    /\ ~should_stop
    /\ ~SomeFetchFailed

\* C10: a run never raises to its caller and always ends by returning the
\* list accumulated so far, whatever parse failures, empty pages and fetch
\* failures occur.
C10_AlwaysReturns ==
    /\ [] (pc # "raised")
    /\ [] (pc = "done" => result = all_jobs)
    /\ <> (pc = "done")

C10_Witness ==
    /\ pc = "done"
    /\ scraped = 2
    /\ Len(job_elements) = 2
    /\ job_elements[1] = ParseError
    /\ Usable(job_elements[2])
    /\ result = << job_elements[2] >>
\* how the run ended, told from what the site served
EndedBy ==
    IF SomeFetchFailed THEN "aborted"
    ELSE IF STOP_ON_KNOWN_JOB /\ scraped > 0 /\ scraped \in knownPages THEN "early_stop"
    ELSE "natural"

C12_DelayBetweenFetches ==
    /\ [] (Len(delays) = IF pc = "load" THEN Len(fetched) ELSE Max(0, Len(fetched) - 1))
    /\ [] (\A i \in 1 .. Len(delays) : delays[i] = i + 1)
    /\ [][ (Len(fetched') > Len(fetched) /\ Len(fetched) >= 1) =>
              (Len(delays) = Len(fetched) /\ scraped = Len(fetched)) ]_vars
    /\ [][ Len(delays') > Len(delays) =>
              (~should_stop /\ page <= total_pages /\ scraped = page - 1 /\ pc' = "load") ]_vars

C12_Witness ==
    /\ pc = "done"
    /\ should_stop
    /\ Len(fetched) = 2
    /\ delays = << 2 >>
\* C13: no step of a run changes the known-key set: it stays the set supplied
\* at run start, also when records are appended or the early stop is taken.
C13_KnownSetReadOnly == [][ existing_job_ids' = existing_job_ids ]_vars

C13_Witness ==
    /\ pc = "done"
    /\ should_stop
    /\ scraped = 2
    /\ Len(result) >= 2
    /\ \A j \in 1 .. Len(result) : CompositeKey(result[j]) \notin existing_job_ids
\* C16: the pages fetched in a run are 1, 2, ..., k in this order, each once,
\* and once the early stop was taken or a fetch failed no page is fetched.
C16_SequentialFetches ==
    /\ [] (\A i \in 1 .. Len(fetched) : fetched[i].page = i)
    /\ [][ (should_stop \/ SomeFetchFailed) => fetched' = fetched ]_vars
    /\ [][ Len(fetched') <= Len(fetched) + 1 ]_vars

C16_Witness ==
    /\ pc = "done"
    /\ should_stop
    /\ Len(fetched) = 2
    /\ fetched[1].page = 1
    /\ fetched[2].page = 2
\* C17: a loaded page without job elements adds no record and does not set the
\* stop flag; the walker goes on to the delay and the fetch of the next page,
\* or returns when the page was the last one.
C17_EmptyPageContinues ==
    /\ [][ (scraped' = scraped + 1 /\ job_elements' = <<>>) =>
              /\ all_jobs' = all_jobs
              /\ ~should_stop'
              /\ pc' = IF page < total_pages THEN "delay" ELSE "done" ]_vars
    /\ \A n \in 1 .. MaxTotal :
          (pc = "delay" /\ job_elements = <<>> /\ Len(fetched) = n)
              ~> (Len(fetched) = n + 1 /\ fetched[n + 1].page = n + 1)

C17_Witness ==
    /\ pc = "delay"
    /\ scraped = 1
    /\ job_elements = <<>>
    /\ ~should_stop
    /\ page = 2
\* C18: the page count is read exactly once, right after page 1 loaded and
\* before anything is scraped, and the loop bound stays the value read then
\* (clamped by a non-zero max_pages) for the rest of the run.
C18_TotalPagesReadOnce ==
    /\ [] (pc = "get_total" => (reported = Unset /\ Len(fetched) = 1 /\ scraped = 0))
    /\ [] (reported # Unset =>
              total_pages = IF max_pages = 0 THEN reported ELSE Min(reported, max_pages))
    /\ [][ reported # Unset => (reported' = reported /\ total_pages' = total_pages) ]_vars
    /\ [][ total_pages' # total_pages => pc = "get_total" ]_vars

C18_Witness ==
    /\ pc = "done"
    /\ reported = 2
    /\ total_pages = 2
    /\ scraped = 2
    /\ Len(fetched) = 2

\* C19: when the pagination element is missing, has no page links, has no
\* numeric link text or cannot be read, the page count is 1: page 1 is the only
\* page fetched and scraped and the run returns normally.
C19_MissingPaginationIsOnePage ==
    pagination \in {"no_pagination", "no_links", "no_digits", "error"} =>
        /\ reported = 1
        /\ total_pages = 1
        /\ Len(fetched) = 1
        /\ scraped <= 1
        /\ pc \in {"loop", "done"}
        /\ pc = "done" => (scraped = 1 /\ result = all_jobs /\ ~SomeFetchFailed)

C19_Witness ==
    /\ pagination = "no_digits"
    /\ pc = "done"
    /\ scraped = 1
    /\ max_pages = 3
    /\ Len(result) > 0
\* the elements of a page without those whose parsing failed
ParsedOnly(items) == SelectSeq(items, LAMBDA x : x # ParseError)

\* C20: a parse failure is confined to its item: a page holding failed items
\* contributes the same records, sets the stop flag the same way and lets the
\* walker move on the same way as the page without the failed items would.
C20_ParseFailureConfined ==
    (scraped > 0 /\ \E i \in 1 .. Len(job_elements) : job_elements[i] = ParseError) =>
        LET clean == ParsedOnly(job_elements)
            k     == FirstKnown(clean)
            upto  == IF STOP_ON_KNOWN_JOB /\ k > 0 THEN k - 1 ELSE Len(clean)
        IN  /\ Contribution(scraped) = SelectSeq(SubSeq(clean, 1, upto), Usable)
            /\ should_stop <=> (STOP_ON_KNOWN_JOB /\ k > 0)
            /\ \A j \in 1 .. Len(all_jobs) : all_jobs[j] # ParseError
            /\ pc = IF should_stop \/ scraped >= total_pages THEN "done" ELSE "delay"
            /\ ~should_stop => page = scraped + 1

C20_Witness ==
    /\ pc = "delay"
    /\ scraped = 1
    /\ Len(job_elements) = 2
    /\ job_elements[1] = ParseError
    /\ Usable(job_elements[2])
    /\ all_jobs = << job_elements[2] >>
\* a is b with some of its elements left out, the others in b's order
RECURSIVE IsSubseq(_, _)
IsSubseq(a, b) ==
    IF a = <<>> THEN TRUE
    ELSE IF b = <<>> THEN FALSE
    ELSE IF Head(a) = Head(b) THEN IsSubseq(Tail(a), Tail(b))
    ELSE IsSubseq(a, Tail(b))

\* C21: the batch is ordered: the records come in increasing page number and,
\* within a page, in the order of the page's items. The records collected so
\* far are only ever extended at the end, by a subsequence of the items of the
\* page just scraped, so the result is a subsequence of the concatenation of
\* the scraped pages' items; the returned list is the collected list.
C21_OrderedBatch ==
    /\ [] (/\ Len(origin) = Len(all_jobs)
           /\ \A i, j \in 1 .. Len(origin) : i <= j => origin[i] <= origin[j]
           /\ pc = "done" => result = all_jobs)
    /\ [][ all_jobs' # all_jobs =>
             /\ scraped' = scraped + 1
             /\ Len(all_jobs') > Len(all_jobs)
             /\ SubSeq(all_jobs', 1, Len(all_jobs)) = all_jobs
             /\ IsSubseq(SubSeq(all_jobs', Len(all_jobs) + 1, Len(all_jobs')), job_elements')
             /\ \A i \in Len(all_jobs) + 1 .. Len(all_jobs') : origin'[i] = scraped' ]_vars

C21_Witness ==
    /\ pc = "done"
    /\ scraped = 2
    /\ origin = << 1, 2, 2 >>
    /\ all_jobs[2] # all_jobs[3]
    /\ job_elements = << all_jobs[2], all_jobs[3] >>
    /\ result = all_jobs
\* C22: every run terminates. Each loop iteration either ends the run or
\* advances the page counter by one, the loop bound does not change once the
\* scraping has begun, so at most total_pages pages are scraped, and the run
\* reaches its end, where it returns and takes no further step.
C22_Terminates ==
    /\ [] (reported # Unset => scraped <= total_pages)
    /\ [][ scraped' = scraped + 1 =>
             \/ pc' = "done"
             \/ (page' = page + 1 /\ page' <= total_pages /\ pc' = "delay") ]_vars
    /\ [][ scraped > 0 => total_pages' = total_pages ]_vars
    /\ [][ pc # "done" ]_vars
    /\ <>[] (pc = "done" /\ result = all_jobs)

C22_Witness ==
    /\ pc = "done"
    /\ ~should_stop
    /\ ~SomeFetchFailed
    /\ total_pages = 2
    /\ scraped = total_pages
    /\ page = total_pages + 1
\* C23 (as stated): with an effective max_pages of 0 the page count read on
\* page 1 is not clamped, page 1 is fetched and scraped, and all reported
\* pages are walked (fetch failures and early stop aside).
C23_ZeroScrapesPageOne ==
    max_pages = 0 =>
        /\ pc # "start" => Len(fetched) >= 1
        /\ reported # Unset => total_pages = reported
        /\ (pc = "done" /\ fetched[1].outcome = "ok") => scraped >= 1
        /\ (pc = "done" /\ ~should_stop /\ ~SomeFetchFailed) => scraped = reported

\* C23 (amended): with an effective max_pages of 0 the page count read on
\* page 1 is not clamped and page 1 is fetched; page 1 is scraped exactly when
\* it loaded and the reported count is at least 1, and all reported pages are
\* walked unless a fetch fails or the run stops early.
C23_ZeroIsNoLimit ==
    max_pages = 0 =>
        /\ pc # "start" => Len(fetched) >= 1
        /\ reported # Unset => total_pages = reported
        /\ (pc = "done" /\ fetched[1].outcome = "ok") => (scraped >= 1 <=> reported >= 1)
        /\ (pc = "done" /\ ~should_stop /\ ~SomeFetchFailed) => scraped = reported

C23_Witness ==
    /\ max_pages = 0
    /\ pc = "done"
    /\ reported = 2
    /\ total_pages = 2
    /\ scraped = 2
    /\ ~should_stop
    /\ ~SomeFetchFailed
    /\ Len(result) > 0
\* the webhook URL is set and begins with https://hooks.slack.com
ValidWebhook ==
    /\ webhook_url.some
    /\ Len(webhook_url.val) >= 2
    /\ webhook_url.val[1] = "https://"
    /\ webhook_url.val[2] = "hooks.slack.com"

\* C24: send_message issues no HTTP request and returns False when the webhook
\* URL is empty or does not start with https://hooks.slack.com; otherwise it
\* issues exactly one POST, to that URL and carrying the text, and returns True
\* only on a response with status 200; on a timeout, a connection error or any
\* other exception it returns False and never raises.
C24_SendMessageContract ==
    call.op = "send_message" =>
        /\ ret \in {"True", "False"}
        /\ IF ~ValidWebhook
             THEN posts = <<>> /\ ret = "False"
             ELSE /\ Len(posts) = 1
                  /\ posts[1].url = webhook_url.val
                  /\ posts[1].json.text = call.text
                  /\ ret = "True" <=> (call.response.exc = None /\ call.response.status = 200)

C24_Witness ==
    /\ call.op = "send_message"
    /\ ValidWebhook
    /\ call.response.exc = "Timeout"
    /\ Len(posts) = 1
    /\ ret = "False"

\* the text of the block that shows a job
JobText(job) == "*" \o job.title \o "*\nPayment: Not Verified"
\* the text of the note for k jobs left out
MoreText(k) == "*... and " \o ToString(k) \o " more new jobs!* Check the database for full list."

\* C25: send_new_jobs sends at most one message per call; the message carries
\* job blocks for the first 10 jobs of the batch at most, in batch order, and a
\* '... and N more' note exactly when the batch has more than 10 jobs; for an
\* empty batch nothing is sent and True is returned, webhook URL or not.
C25_SendNewJobsContract ==
    call.op = "send_new_jobs" =>
        LET batch == call.new_jobs
            n     == Len(batch)
        IN  /\ Len(posts) <= 1
            /\ batch = <<>> => (posts = <<>> /\ ret = "True")
            /\ posts # <<>> <=> (n > 0 /\ ValidWebhook)
            /\ posts # <<>> =>
                 LET blocks == posts[1].json.blocks.val
                     shown  == SelectSeq(blocks,
                                  LAMBDA b : \E j \in NotifyJobs : b.text = JobText(j))
                     notes  == SelectSeq(blocks,
                                  LAMBDA b : \E k \in 0 .. MaxBatch : b.text = MoreText(k))
                 IN  /\ posts[1].json.blocks.some
                     /\ Len(shown) = Min(n, 10)
                     /\ \A i \in 1 .. Len(shown) : shown[i].text = JobText(batch[i])
                     /\ Len(notes) = IF n > 10 THEN 1 ELSE 0
                     /\ n > 10 => notes[1].text = MoreText(n - 10)

C25_Witness ==
    /\ call.op = "send_new_jobs"
    /\ Len(call.new_jobs) = 11
    /\ call.new_jobs[1] # call.new_jobs[2]
    /\ Len(posts) = 1
    /\ ret = "True"

\* C25, the empty batch without a webhook URL
C25_EmptyBatchWitness ==
    /\ call.op = "send_new_jobs"
    /\ call.new_jobs = <<>>
    /\ ~webhook_url.some
    /\ posts = <<>>
    /\ ret = "True"
====
